---- MODULE Spec2Model ----
(***************************************************************************)
(* A model of lightfswatcher (src/watch.h): the inotify watch pool, the    *)
(* directory watch with its ticket cursor, and the file watcher built on   *)
(* it.  The native facility (inotify) is modelled as the environment the   *)
(* pool talks to through inotify_add_watch, inotify_rm_watch and read.     *)
(***************************************************************************)
EXTENDS Integers, Sequences, FiniteSets, TLC

\* ------------------------------------------------------------------ bounds
\* Watch descriptors the native source hands out are 1..MaxHandle; it cycles
\* through them as the kernel cycles through 1..INT_MAX.
MaxHandle == 2
\* Native notifications generated in one run.
MaxNotif == 3
MaxLen == 4

\* ------------------------------------------------------- program constants
NoHandle == -1
NAME_MAX == 255
SizeofInotifyEvent == 16
MaxEventSize == SizeofInotifyEvent + NAME_MAX + 1

Handles == 1..MaxHandle
Watches == {"w1", "w2"}
Dirs == {"p", "q"}
NoDir == "none"

\* The string of n copies of c, built by halving n.
RECURSIVE Repeat(_, _)
Twice(s) == s \o s
Repeat(c, n) ==
  IF n = 0 THEN ""
  ELSE IF n % 2 = 0 THEN Twice(Repeat(c, n \div 2))
  ELSE c \o Repeat(c, n - 1)
\* An entry name of the longest length the file system allows.
LongName == Repeat("x", NAME_MAX)

\* ------------------------------------------------------------ event record
watch_directory_destroyed == "watch_directory_destroyed"
file_created == "file_created"
file_deleted == "file_deleted"
file_modified == "file_modified"

\* directory_event(type, name)
directory_event(type, name) == [Type |-> type, Name |-> name]
\* directory_event(): the default event
default_directory_event == directory_event(watch_directory_destroyed, "")

\* ------------------------------------------------------ notification masks
\* A mask is the set of its bits; mask & flags is the intersection.
DeadFlags == {"IN_IGNORED", "IN_Q_OVERFLOW", "IN_UNMOUNT"}
FileCreatedFlags == {"IN_CREATE", "IN_MOVED_TO"}
FileDeletedFlags == {"IN_MOVED_FROM", "IN_DELETE"}
FileModifiedFlags == {"IN_MODIFY", "IN_CLOSE_WRITE"}
OtherFlags == {"IN_ISDIR", "IN_ACCESS"}
AllFlags == DeadFlags \cup FileCreatedFlags \cup FileDeletedFlags
              \cup FileModifiedFlags \cup OtherFlags

\* ------------------------------------------------------------------- state
VARIABLES
  exists,        \* environment: which directories exist
  kwatch,        \* native source: wd -> the registration it names, if live
  lastWd,        \* native source: the wd handed out last
  nreg,          \* native source: registrations created so far
  ngen,          \* native source: notifications generated so far
  channel,       \* native source: notifications not yet read
  events_,       \* pool: id -> vector of directory_event
  prov_,         \* history: per queue entry, the registration it stems from
  obj,           \* per watch object: "unborn", "directory", "file", "gone"
  Path, NativeHandle, Ticket, Dead,   \* generic_directory_watch fields
  Filename,      \* generic_file_watcher field
  out,           \* the caller's event variable passed to PollEvent
  wreg,          \* history: the registration a watch's last Create returned
  destroyed,     \* history: Destroy() ran since the watch's last good Create
  reported,      \* history: notifications read for a watch's handle since Create
  delivered,     \* history: events a watch returned since its last Create
  fconsumed,     \* history: events a file watcher took from its inner watch
  freturned,     \* history: events a file watcher returned
  lastOp,        \* history: the last call made by the program
  split          \* a path, and what GetDirectory and GetFilename gave for it

vars == <<exists, kwatch, lastWd, nreg, ngen, channel, events_, prov_, obj,
          Path, NativeHandle, Ticket, Dead, Filename, out, wreg, reported,
          delivered, fconsumed, freturned, destroyed, lastOp, split>>

NoWatch == [dir |-> NoDir, reg |-> 0]
Ids == Handles \cup {NoHandle}

\* The machine state the operations read and write, as one record.
Cur == [exists |-> exists, kwatch |-> kwatch, lastWd |-> lastWd, nreg |-> nreg,
        ngen |-> ngen, channel |-> channel, events_ |-> events_,
        prov_ |-> prov_, Path |-> Path, NativeHandle |-> NativeHandle,
        Ticket |-> Ticket, Dead |-> Dead, Filename |-> Filename,
        wreg |-> wreg, reported |-> reported, delivered |-> delivered,
        fconsumed |-> fconsumed, freturned |-> freturned,
        destroyed |-> destroyed]

Becomes(M) ==
  /\ exists' = M.exists /\ kwatch' = M.kwatch /\ lastWd' = M.lastWd
  /\ nreg' = M.nreg /\ ngen' = M.ngen /\ channel' = M.channel
  /\ events_' = M.events_ /\ prov_' = M.prov_ /\ Path' = M.Path
  /\ NativeHandle' = M.NativeHandle /\ Ticket' = M.Ticket /\ Dead' = M.Dead
  /\ Filename' = M.Filename /\ wreg' = M.wreg /\ reported' = M.reported
  /\ delivered' = M.delivered /\ fconsumed' = M.fconsumed
  /\ freturned' = M.freturned /\ destroyed' = M.destroyed

WithinBounds(M) == M.ngen <= MaxNotif

\* ------------------------------------------------------- the native source
\* The directory a path names: "p" and "p/" name the same directory.
Resolve(path) ==
  IF \E d \in Dirs : path \in {d, d \o "/"}
  THEN CHOOSE d \in Dirs : path \in {d, d \o "/"}
  ELSE NoDir

\* The len field of struct inotify_event: the name with its terminator,
\* padded to a multiple of the header size; 0 when there is no name.
NameFieldLen(name) ==
  IF name = "" THEN 0
  ELSE ((Len(name) + 1 + SizeofInotifyEvent - 1) \div SizeofInotifyEvent)
         * SizeofInotifyEvent

inotify_event(wd, mask, name, reg) ==
  [wd |-> wd, mask |-> mask, len |-> NameFieldLen(name), name |-> name,
   reg |-> reg]

\* The native source queues a notification, unless it repeats the one
\* queued last (which it then merges).
Enqueue(M, n) ==
  IF M.channel # <<>> /\ M.channel[Len(M.channel)] = n
  THEN M
  ELSE [M EXCEPT !.channel = Append(@, n), !.ngen = @ + 1]

Live(M, wd) == wd \in Handles /\ M.kwatch[wd] # NoWatch
WdOf(M, d) == CHOOSE h \in Handles : M.kwatch[h].dir = d
FreeHandles(M) == {h \in Handles : M.kwatch[h] = NoWatch}

\* The next free descriptor after the one handed out last, cyclically.
NextWd(M) ==
  LET cand(i) == ((M.lastWd + i) % MaxHandle) + 1
      k == CHOOSE i \in 0..(MaxHandle - 1) :
             /\ cand(i) \in FreeHandles(M)
             /\ \A j \in 0..(i - 1) : cand(j) \notin FreeHandles(M)
  IN cand(k)

\* inotify_add_watch(fd, path, flags): -1 when the path names no directory
\* or no descriptor is left; the descriptor already watching the directory
\* when there is one; else a new registration under the next descriptor.
inotify_add_watch(M, path) ==
  LET d == Resolve(path) IN
  IF d = NoDir \/ ~M.exists[d] THEN [M |-> M, wd |-> -1]
  ELSE IF \E h \in Handles : M.kwatch[h].dir = d
       THEN [M |-> M, wd |-> WdOf(M, d)]
  ELSE IF FreeHandles(M) = {} THEN [M |-> M, wd |-> -1]
  ELSE LET h == NextWd(M) IN
       [M |-> [M EXCEPT !.kwatch[h] = [dir |-> d, reg |-> M.nreg + 1],
                        !.lastWd = h, !.nreg = @ + 1],
        wd |-> h]

\* Throughout, "CHOOSE R \in {F(x) : x \in {e}} : TRUE" is F(e): the value
\* of one stage, e, is computed once and handed to the next, as a statement
\* of the code hands its result to the one after it.
\* What the native source does when a registration ends: it forgets the
\* registration and queues IN_IGNORED for its descriptor.
EndWatch(M, wd) ==
  CHOOSE R \in {Enqueue(K, inotify_event(wd, {"IN_IGNORED"}, "",
                                          M.kwatch[wd].reg)) :
                  K \in {[M EXCEPT !.kwatch[wd] = NoWatch]}} : TRUE

\* inotify_rm_watch(fd, wd): EINVAL, and nothing done, for a wd that names
\* no live registration.
inotify_rm_watch(M, wd) == IF Live(M, wd) THEN EndWatch(M, wd) ELSE M

EventSize(n) == SizeofInotifyEvent + n.len

\* A read that hands over one notification at a time.
ReadCount_One(ch, room) ==
  IF ch = <<>> \/ EventSize(Head(ch)) > room THEN 0 ELSE 1

\* read(fd, buf, count) hands over the longest run of whole notifications
\* that fits in count bytes.
RECURSIVE ReadCount(_, _)
ReadCount(ch, room) ==
  IF ch = <<>> \/ EventSize(Head(ch)) > room THEN 0
  ELSE 1 + ReadCount(Tail(ch), room - EventSize(Head(ch)))

\* ---------------------------------------------------- inotify_watch_pool
\* Parsed with the deletion test ahead of the creation test.
Parsed_DeletedFirst(ev) ==
  IF (ev.mask \cap DeadFlags) # {}
  THEN <<default_directory_event>>
  ELSE IF (ev.mask \cap FileDeletedFlags) # {}
       THEN <<directory_event(file_deleted, ev.name)>>
  ELSE IF (ev.mask \cap FileCreatedFlags) # {}
       THEN <<directory_event(file_created, ev.name)>>
  ELSE IF (ev.mask \cap FileModifiedFlags) # {}
       THEN <<directory_event(file_modified, ev.name)>>
  ELSE <<>>

\* The events ParseEvent appends for one notification: one or none.
Parsed(ev) ==
  IF (ev.mask \cap DeadFlags) # {}
  THEN <<default_directory_event>>
  ELSE IF (ev.mask \cap FileCreatedFlags) # {}
       THEN <<directory_event(file_created, ev.name)>>
  ELSE IF (ev.mask \cap FileDeletedFlags) # {}
       THEN <<directory_event(file_deleted, ev.name)>>
  ELSE IF (ev.mask \cap FileModifiedFlags) # {}
       THEN <<directory_event(file_modified, ev.name)>>
  ELSE <<>>

\* ParseEvent(event): vec = events_[event.wd], then the emplace_back.
ParseEvent(M, ev) ==
  [M EXCEPT
     !.events_[ev.wd] = @ \o Parsed(ev),
     !.prov_[ev.wd] = @ \o [i \in 1..Len(Parsed(ev)) |-> ev.reg]]

\* ParseAll with the buffer walked from its end.
RECURSIVE ParseAll_Reversed(_, _)
ParseAll_Reversed(M, buf) ==
  IF buf = <<>> THEN M
  ELSE ParseEvent(ParseAll_Reversed(M, Tail(buf)), Head(buf))

\* The while loop of Update(): ParseEvent on each notification of the
\* buffer, front to back.
RECURSIVE ParseAll(_, _)
ParseAll(M, buf) ==
  IF buf = <<>> THEN M
  ELSE CHOOSE R \in {ParseAll(P, Tail(buf)) :
                       P \in {ParseEvent(M, Head(buf))}} : TRUE

\* create_result with the ticket left at zero.
create_result_FromZero(r) ==
  [M |-> r.M, Error |-> IF r.wd = -1 THEN 1 ELSE 0, Handle |-> r.wd,
   Ticket |-> 0]

\* create_result with the ticket one past the end of the queue.
create_result_PastEnd(r) ==
  [M |-> r.M, Error |-> IF r.wd = -1 THEN 1 ELSE 0, Handle |-> r.wd,
   Ticket |-> Len(r.M.events_[r.wd]) + 1]

\* The create_result of Create: {errno or 0, handle, events_[handle].size()},
\* with the state the call leaves.
create_result(r) ==
  [M |-> r.M, Error |-> IF r.wd = -1 THEN 1 ELSE 0, Handle |-> r.wd,
   Ticket |-> Len(r.M.events_[r.wd])]

\* Create(file)
PoolCreate(M, file) ==
  CHOOSE R \in {create_result(r) : r \in {inotify_add_watch(M, file)}} : TRUE

\* Destroy that also erases the queue kept under the id.
PoolDestroy_ErasesQueue(M, id) ==
  IF id = -1 THEN M
  ELSE [inotify_rm_watch(M, id) EXCEPT !.events_[id] = <<>>,
                                       !.prov_[id] = <<>>]

\* Destroy(id)
PoolDestroy(M, id) == IF id = -1 THEN M ELSE inotify_rm_watch(M, id)

\* read(handleInotify_, eventBuffer_, MaxEventSize): the first k
\* notifications leave the channel.  The history notes, for each watch that
\* holds a registration, those read under its handle.
Read(M, k) ==
  [M EXCEPT
     !.channel = SubSeq(@, k + 1, Len(@)),
     !.reported = [w \in Watches |->
                     IF M.wreg[w] # 0
                     THEN @[w] \o SelectSeq(SubSeq(M.channel, 1, k),
                                   LAMBDA n : n.wd = M.NativeHandle[w])
                     ELSE @[w]]]

\* Update(): one read of at most MaxEventSize bytes (len == -1 when nothing
\* is pending), then ParseEvent on each notification read, in buffer order.
Update(M) ==
  IF M.channel = <<>> THEN M
  ELSE CHOOSE R \in {ParseAll(Read(M, k), SubSeq(M.channel, 1, k)) :
                       k \in {ReadCount(M.channel, MaxEventSize)}} : TRUE

\* GetEvents(watch)
GetEvents(M, id) == M.events_[id]

\* ------------------------------------------------ generic_directory_watch
\* Destroy()
Destroy(M, w) ==
  CHOOSE R \in {[P EXCEPT !.Dead[w] = TRUE, !.destroyed[w] = TRUE] :
                  P \in {PoolDestroy(M, M.NativeHandle[w])}} : TRUE

\* The second half of Recreate(): what it stores from Create's result.
StoreResult(result, w) ==
  IF result.Error = 0
  THEN [result.M EXCEPT
          !.Dead[w] = FALSE, !.NativeHandle[w] = result.Handle,
          !.Ticket[w] = result.Ticket,
          !.wreg[w] = result.M.kwatch[result.Handle].reg,
          !.reported[w] = <<>>, !.delivered[w] = <<>>,
          !.destroyed[w] = FALSE]
  ELSE result.M

\* Recreate()
Recreate(M, w) ==
  CHOOSE R \in {StoreResult(result, w) :
                  result \in {PoolCreate(D, M.Path[w]) :
                                D \in {Destroy(M, w)}}} : TRUE

\* TakeEvent without "Dead = true" for a destruction event.
TakeEvent_StaysAlive(M, w, event, created, vec, t) ==
  IF t >= Len(vec)
  THEN [M |-> M, ret |-> FALSE, event |-> event, created |-> created]
  ELSE [M |-> [M EXCEPT
                 !.Ticket[w] = t + 1,
                 !.delivered[w] =
                    Append(@, [ev |-> vec[t + 1],
                               reg |-> M.prov_[M.NativeHandle[w]][t + 1]])],
        ret |-> TRUE, event |-> vec[t + 1], created |-> created]

\* TakeEvent with "Ticket++" advancing by two.
TakeEvent_SkipsOne(M, w, event, created, vec, t) ==
  IF t >= Len(vec)
  THEN [M |-> M, ret |-> FALSE, event |-> event, created |-> created]
  ELSE [M |-> [M EXCEPT
                 !.Ticket[w] = t + 2,
                 !.Dead[w] = IF vec[t + 1].Type = watch_directory_destroyed
                             THEN TRUE ELSE @,
                 !.delivered[w] =
                    Append(@, [ev |-> vec[t + 1],
                               reg |-> M.prov_[M.NativeHandle[w]][t + 1]])],
        ret |-> TRUE, event |-> vec[t + 1], created |-> created]

\* TakeEvent with the ticket test off by one: the last entry is never taken.
TakeEvent_LeavesLast(M, w, event, created, vec, t) ==
  IF t + 1 >= Len(vec)
  THEN [M |-> M, ret |-> FALSE, event |-> event, created |-> created]
  ELSE [M |-> [M EXCEPT
                 !.Ticket[w] = t + 1,
                 !.Dead[w] = IF vec[t + 1].Type = watch_directory_destroyed
                             THEN TRUE ELSE @,
                 !.delivered[w] =
                    Append(@, [ev |-> vec[t + 1],
                               reg |-> M.prov_[M.NativeHandle[w]][t + 1]])],
        ret |-> TRUE, event |-> vec[t + 1], created |-> created]

\* PollEvent from "if(Ticket >= vec.size())" on: vec is the copy of the
\* queue GetEvents gave, t the ticket.
TakeEvent(M, w, event, created, vec, t) ==
  IF t >= Len(vec)
  THEN [M |-> M, ret |-> FALSE, event |-> event, created |-> created]
  ELSE [M |-> [M EXCEPT
                 !.Ticket[w] = t + 1,
                 !.Dead[w] = IF vec[t + 1].Type = watch_directory_destroyed
                             THEN TRUE ELSE @,
                 !.delivered[w] =
                    Append(@, [ev |-> vec[t + 1],
                               reg |-> M.prov_[M.NativeHandle[w]][t + 1]])],
        ret |-> TRUE, event |-> vec[t + 1], created |-> created]

\* PollEvent after Pool->Update().
AfterUpdate(M, w, event, created) ==
  TakeEvent(M, w, event, created, GetEvents(M, M.NativeHandle[w]),
            M.Ticket[w])

\* PollEvent after "if(Dead) Recreate();".
AfterRecreate(M, w, event, created) ==
  IF M.Dead[w]
  THEN [M |-> M, ret |-> FALSE, event |-> event, created |-> FALSE]
  ELSE CHOOSE r \in {AfterUpdate(U, w, event, created) :
                       U \in {Update(M)}} : TRUE

\* PollEvent(event): the state after the call, what it returns, the value
\* of the caller's event after it, and whether it created a registration.
PollEvent(M, w, event) ==
  CHOOSE r \in {AfterRecreate(R, w, event, M.Dead[w]) :
                  R \in {IF M.Dead[w] THEN Recreate(M, w) ELSE M}} : TRUE

\* --------------------------------------------------- generic_file_watcher
\* A std::string is the sequence of its characters here; Str gives the
\* same text as one string value.
RECURSIVE Str(_)
Str(cs) == IF cs = <<>> THEN "" ELSE Head(cs) \o Str(Tail(cs))

Separators == {"/", "\\"}

\* The reverse scan of GetDirectory and GetFilename: the number of
\* characters behind the last separator, -1 when the scan reaches rend().
RECURSIVE ScanBack(_, _)
ScanBack(dir, k) ==
  IF k = Len(dir) THEN -1
  ELSE IF dir[Len(dir) - k] \in Separators THEN k
  ELSE ScanBack(dir, k + 1)

\* GetDirectory(dir)
GetDirectory(dir) ==
  LET k == ScanBack(dir, 0) IN
  IF k = -1 THEN <<>> ELSE SubSeq(dir, 1, Len(dir) - k)

\* GetFilename(dir)
GetFilename(dir) ==
  LET k == ScanBack(dir, 0) IN
  IF k = -1 THEN <<>> ELSE SubSeq(dir, Len(dir) - k + 1, Len(dir))

\* PollEvent(event) of the file watcher: the loop over the inner watch.
\* FileLoop is the loop's body, given what DirectoryWatcher.PollEvent gave.
RECURSIVE FilePollEvent(_, _, _)
\* FileLoop without the comparison of names.
FileLoop_AnyName(r, w) ==
  IF ~r.ret \/ ~WithinBounds(r.M)
  THEN [M |-> r.M, ret |-> FALSE, event |-> r.event]
  ELSE [M |-> [r.M EXCEPT !.fconsumed[w] = Append(@, r.event),
                          !.freturned[w] = Append(@, r.event)],
        ret |-> TRUE, event |-> r.event]

FileLoop(r, w) ==
  IF ~r.ret \/ ~WithinBounds(r.M)
  THEN [M |-> r.M, ret |-> FALSE, event |-> r.event]
  ELSE IF r.event.Name = r.M.Filename[w]
       THEN [M |-> [r.M EXCEPT !.fconsumed[w] = Append(@, r.event),
                               !.freturned[w] = Append(@, r.event)],
             ret |-> TRUE, event |-> r.event]
       ELSE FilePollEvent([r.M EXCEPT !.fconsumed[w] = Append(@, r.event)],
                          w, r.event)

FilePollEvent(M, w, event) == FileLoop(PollEvent(M, w, event), w)

\* ------------------------------------------------------------------ inputs
DirPaths == {"p", "q"}
FilePaths == {<<"p", "/", "a">>, <<"q", "/">>}
\* The paths GetDirectory and GetFilename are applied to: every string of
\* at most MaxLen characters, each a letter or one of the two separators.
PathChars == {"a", "/", "\\"}
SplitPaths == UNION {[1..n -> PathChars] : n \in 0..MaxLen}
\* No path has been split.
NoSplit == [p |-> <<>>, Directory |-> <<>>, Filename |-> <<>>,
            done |-> FALSE]
\* What can happen to an entry of a watched directory.
EntryEvents == {[mask |-> {"IN_CREATE"}, name |-> "a"],
                [mask |-> {"IN_MODIFY"}, name |-> LongName]}

\* The last call: which, on which watch, what it returned, whether it
\* created a registration, whether it is a Destroy that follows a Destroy
\* of the same watch, and, for Update, how many notifications it read and
\* how many it left in the channel.
NoOp == [op |-> "none", w |-> "none", ret |-> FALSE, created |-> FALSE,
         again |-> FALSE, read |-> 0, left |-> 0]
Op(op, w, ret, created) ==
  [op |-> op, w |-> w, ret |-> ret, created |-> created,
   again |-> op \in {"Destroy", "Destruct"} /\ lastOp.op = "Destroy"
               /\ lastOp.w = w,
   read |-> 0, left |-> 0]

\* -------------------------------------------------------------------- Init
Init ==
  /\ exists = [d \in Dirs |-> d = "p"]
  /\ kwatch = [h \in Handles |-> NoWatch]
  /\ lastWd = 0
  /\ nreg = 0
  /\ ngen = 0
  /\ channel = <<>>
  /\ events_ = [i \in Ids |-> <<>>]
  /\ prov_ = [i \in Ids |-> <<>>]
  /\ obj = [w \in Watches |-> "unborn"]
  /\ Path = [w \in Watches |-> ""]
  /\ NativeHandle = [w \in Watches |-> -1]
  /\ Ticket = [w \in Watches |-> -1]
  /\ Dead = [w \in Watches |-> TRUE]
  /\ Filename = [w \in Watches |-> ""]
  /\ out = [w \in Watches |-> default_directory_event]
  /\ wreg = [w \in Watches |-> 0]
  /\ reported = [w \in Watches |-> <<>>]
  /\ delivered = [w \in Watches |-> <<>>]
  /\ fconsumed = [w \in Watches |-> <<>>]
  /\ freturned = [w \in Watches |-> <<>>]
  /\ destroyed = [w \in Watches |-> FALSE]
  /\ lastOp = NoOp
  /\ split = NoSplit

\* ------------------------------------------------------ the program's calls
\* generic_directory_watch(path, poolPtr)
Construct(w, path) ==
  /\ obj[w] = "unborn"
  /\ \E M \in {Recreate([Cur EXCEPT !.Path[w] = path], w)} :
       /\ WithinBounds(M)
       /\ Becomes(M)
       /\ lastOp' = Op("Construct", w, FALSE, ~M.Dead[w])
  /\ obj' = [obj EXCEPT ![w] = "directory"]
  /\ UNCHANGED <<out, split>>

\* generic_file_watcher(dir, ptr)
ConstructFile(w, dir) ==
  /\ obj[w] = "unborn"
  /\ \E M \in {Recreate([Cur EXCEPT !.Path[w] = Str(GetDirectory(dir)),
                                       !.Filename[w] = Str(GetFilename(dir))],
                          w)} :
       /\ WithinBounds(M)
       /\ Becomes(M)
       /\ lastOp' = Op("ConstructFile", w, FALSE, ~M.Dead[w])
  /\ obj' = [obj EXCEPT ![w] = "file"]
  /\ UNCHANGED <<out, split>>

\* A call of PollEvent on a directory watch.
CallPollEvent(w) ==
  /\ obj[w] = "directory"
  /\ \E r \in {PollEvent(Cur, w, out[w])} :
       /\ WithinBounds(r.M)
       /\ Becomes(r.M)
       /\ out' = [out EXCEPT ![w] = r.event]
       /\ lastOp' = Op("PollEvent", w, r.ret, r.created)
  /\ UNCHANGED <<obj, split>>

\* A call of PollEvent on a file watcher.
CallFilePollEvent(w) ==
  /\ obj[w] = "file"
  /\ \E r \in {FilePollEvent(Cur, w, out[w])} :
       /\ WithinBounds(r.M)
       /\ Becomes(r.M)
       /\ out' = [out EXCEPT ![w] = r.event]
       /\ lastOp' = Op("FilePollEvent", w, r.ret, FALSE)
  /\ UNCHANGED <<obj, split>>

\* A call of Destroy on a directory watch.
CallDestroy(w) ==
  /\ obj[w] = "directory"
  /\ \E M \in {Destroy(Cur, w)} :
       /\ WithinBounds(M)
       /\ Becomes(M)
  /\ lastOp' = Op("Destroy", w, FALSE, FALSE)
  /\ UNCHANGED <<obj, out, split>>

\* ~generic_directory_watch(), also run for a file watcher's inner watch.
Destruct(w) ==
  /\ obj[w] \in {"directory", "file"}
  /\ \E M \in {Destroy(Cur, w)} :
       /\ WithinBounds(M)
       /\ Becomes(M)
  /\ obj' = [obj EXCEPT ![w] = "gone"]
  /\ lastOp' = Op("Destruct", w, FALSE, FALSE)
  /\ UNCHANGED <<out, split>>

\* A call of the pool's Update by its owner.
CallUpdate ==
  /\ channel # <<>>
  /\ \E M \in {Update(Cur)} :
       /\ Becomes(M)
       /\ lastOp' = [Op("Update", "none", FALSE, FALSE) EXCEPT
                       !.read = Len(channel) - Len(M.channel),
                       !.left = Len(M.channel)]
  /\ UNCHANGED <<obj, out, split>>

\* ---------------------------------------------------------- the environment
EnvMkdir(d) ==
  /\ ~exists[d]
  /\ Becomes([Cur EXCEPT !.exists[d] = TRUE])
  /\ UNCHANGED <<obj, out, lastOp, split>>

\* The directory is removed: a registration on it ends.
EnvRmdir(d) ==
  /\ exists[d]
  /\ \E M \in {IF \E h \in Handles : kwatch[h].dir = d
                THEN EndWatch([Cur EXCEPT !.exists[d] = FALSE], WdOf(Cur, d))
                ELSE [Cur EXCEPT !.exists[d] = FALSE]} :
       WithinBounds(M) /\ Becomes(M)
  /\ UNCHANGED <<obj, out, lastOp, split>>

\* The file system holding the directory is unmounted: IN_UNMOUNT, then the
\* registration ends.
EnvUnmount(d) ==
  /\ exists[d]
  /\ \E h \in Handles : kwatch[h].dir = d
  /\ \E h \in {WdOf(Cur, d)} :
       \E M \in {EndWatch(Enqueue([Cur EXCEPT !.exists[d] = FALSE],
                                  inotify_event(h, {"IN_UNMOUNT"}, "",
                                                kwatch[h].reg)), h)} :
         WithinBounds(M) /\ Becomes(M)
  /\ UNCHANGED <<obj, out, lastOp, split>>

\* Something happens to an entry of a watched directory.
EnvEntry(d, e) ==
  /\ exists[d]
  /\ \E h \in Handles : kwatch[h].dir = d
  /\ \E h \in {WdOf(Cur, d)} :
       \E M \in {Enqueue(Cur, inotify_event(h, e.mask, e.name,
                                            kwatch[h].reg))} :
         M.ngen # ngen /\ WithinBounds(M) /\ Becomes(M)
  /\ UNCHANGED <<obj, out, lastOp, split>>

Next ==
  \/ \E path \in DirPaths : Construct("w1", path)
  \/ \E dir \in FilePaths : ConstructFile("w2", dir)
  \/ \E w \in Watches : CallPollEvent(w)
  \/ \E w \in Watches : CallFilePollEvent(w)
  \/ \E w \in Watches : CallDestroy(w)
  \/ \E w \in Watches : Destruct(w)
  \/ \E d \in Dirs : EnvMkdir(d)
  \/ \E d \in Dirs : EnvRmdir(d)
  \/ \E d \in Dirs : EnvUnmount(d)
  \/ CallUpdate
  \/ \E d \in Dirs, e \in EntryEvents : EnvEntry(d, e)

Spec == Init /\ [][Next]_vars

\* ------------------------------------------- classification on its own
\* A directory watch was constructed on "p"; one notification for its
\* handle is pending, of any mask. Update reads and classifies it. A
\* notification about an entry of the directory carries the entry's name;
\* one about the watch itself (a destruction bit) may carry none.
NotifNames(mask) ==
  IF mask \cap DeadFlags # {} THEN {"a", ""} ELSE {"a", "b"}
InitParse ==
  /\ exists = [d \in Dirs |-> d = "p"]
  /\ kwatch = [h \in Handles |->
                IF h = 1 THEN [dir |-> "p", reg |-> 1] ELSE NoWatch]
  /\ lastWd = 1
  /\ nreg = 1
  /\ ngen = 1
  /\ \E mask \in SUBSET AllFlags :
       \E name \in NotifNames(mask) :
         channel = <<inotify_event(1, mask, name, 1)>>
  /\ events_ = [i \in Ids |-> <<>>]
  /\ prov_ = [i \in Ids |-> <<>>]
  /\ obj = [w \in Watches |-> IF w = "w1" THEN "directory" ELSE "unborn"]
  /\ Path = [w \in Watches |-> IF w = "w1" THEN "p" ELSE ""]
  /\ NativeHandle = [w \in Watches |-> IF w = "w1" THEN 1 ELSE -1]
  /\ Ticket = [w \in Watches |-> IF w = "w1" THEN 0 ELSE -1]
  /\ Dead = [w \in Watches |-> w # "w1"]
  /\ Filename = [w \in Watches |-> ""]
  /\ out = [w \in Watches |-> default_directory_event]
  /\ wreg = [w \in Watches |-> IF w = "w1" THEN 1 ELSE 0]
  /\ reported = [w \in Watches |-> <<>>]
  /\ delivered = [w \in Watches |-> <<>>]
  /\ fconsumed = [w \in Watches |-> <<>>]
  /\ freturned = [w \in Watches |-> <<>>]
  /\ destroyed = [w \in Watches |-> FALSE]
  /\ lastOp = [NoOp EXCEPT !.op = "Construct", !.w = "w1", !.created = TRUE]
  /\ split = NoSplit

NextParse == CallUpdate

SpecParse == InitParse /\ [][NextParse]_vars

\* ------------------------------------------------ a caller that only polls
\* Two directory watches on one pool, constructed once and then polled by
\* their owner (the loop of the demo programs), while the environment makes
\* and removes the directories and changes their entries.  The owner keeps
\* polling: a PollEvent that would change something is eventually made.
NextPoll ==
  \/ \E w \in Watches, path \in DirPaths : Construct(w, path)
  \/ \E w \in Watches : CallPollEvent(w)
  \/ \E d \in Dirs : EnvMkdir(d)
  \/ \E d \in Dirs : EnvRmdir(d)
  \/ \E d \in Dirs : EnvUnmount(d)
  \/ \E d \in Dirs, e \in EntryEvents : EnvEntry(d, e)

KeepsPolling == \A w \in Watches : WF_vars(CallPollEvent(w))

SpecPoll == Init /\ [][NextPoll]_vars /\ KeepsPolling

\* ----------------------------------------------- the split on its own
\* The constructor of the file watcher applies GetDirectory and GetFilename
\* to the path it is given; here to any path of SplitPaths, nothing else
\* going on.
InitSplit ==
  /\ exists = [d \in Dirs |-> d = "p"]
  /\ kwatch = [h \in Handles |-> NoWatch]
  /\ lastWd = 0
  /\ nreg = 0
  /\ ngen = 0
  /\ channel = <<>>
  /\ events_ = [i \in Ids |-> <<>>]
  /\ prov_ = [i \in Ids |-> <<>>]
  /\ obj = [w \in Watches |-> "unborn"]
  /\ Path = [w \in Watches |-> ""]
  /\ NativeHandle = [w \in Watches |-> -1]
  /\ Ticket = [w \in Watches |-> -1]
  /\ Dead = [w \in Watches |-> TRUE]
  /\ Filename = [w \in Watches |-> ""]
  /\ out = [w \in Watches |-> default_directory_event]
  /\ wreg = [w \in Watches |-> 0]
  /\ reported = [w \in Watches |-> <<>>]
  /\ delivered = [w \in Watches |-> <<>>]
  /\ fconsumed = [w \in Watches |-> <<>>]
  /\ freturned = [w \in Watches |-> <<>>]
  /\ destroyed = [w \in Watches |-> FALSE]
  /\ lastOp = NoOp
  /\ \E p \in SplitPaths : split = [NoSplit EXCEPT !.p = p]

\* DirectoryWatcher(GetDirectory(dir), ptr), Filename(GetFilename(dir))
SplitPath ==
  /\ ~split.done
  /\ split' = [p |-> split.p, Directory |-> GetDirectory(split.p),
               Filename |-> GetFilename(split.p), done |-> TRUE]
  /\ UNCHANGED <<exists, kwatch, lastWd, nreg, ngen, channel, events_,
                 prov_, obj, Path, NativeHandle, Ticket, Dead, Filename,
                 out, wreg, reported, delivered, fconsumed, freturned,
                 destroyed, lastOp>>

NextSplit == SplitPath

SpecSplit == InitSplit /\ [][NextSplit]_vars

\* ================================================================== claims
IsPrefix(s, t) == Len(s) <= Len(t) /\ SubSeq(t, 1, Len(s)) = s
EventsOf(ds) == [i \in 1..Len(ds) |-> ds[i].ev]
\* The events a run of notifications classifies to, in order.
RECURSIVE Classified(_)
Classified(ns) ==
  IF ns = <<>> THEN <<>> ELSE Parsed(Head(ns)) \o Classified(Tail(ns))

\* C1: the events a watch has returned since its registration was created
\* are, in order and without gap or repeat, the first of the notifications
\* read for its handle since then, those that classify to no event left out.
C1_DeliveredInReportedOrder ==
  \A w \in Watches :
    IsPrefix(EventsOf(delivered[w]), Classified(reported[w]))

\* A watch has returned two different events of one registration.
C1_Witness ==
  \E w \in Watches :
    Len(delivered[w]) = 2 /\ delivered[w][1].ev # delivered[w][2].ev

\* C2 as stated: Ticket never decreases, whatever the operation.
C2_TicketNeverDecreases ==
  [][\A w \in Watches : Ticket'[w] >= Ticket[w]]_vars

\* C2, amended: while a watch keeps its registration, Ticket never decreases
\* and moves by at most one per step; a PollEvent that returns true returns
\* the entry at the ticket (the one Create returned, when the call created
\* the registration) and leaves Ticket one further; one that returns false
\* and creates nothing leaves Ticket alone.
C2_TicketStepsByOne ==
  [][\A w \in Watches :
       /\ (obj[w] = "directory" /\ wreg'[w] = wreg[w])
            => Ticket'[w] \in {Ticket[w], Ticket[w] + 1}
       /\ (obj[w] = "file" /\ wreg'[w] = wreg[w]) => Ticket'[w] >= Ticket[w]
       /\ (CallPollEvent(w) /\ lastOp'.ret)
            => LET id == NativeHandle'[w]
                   t == IF wreg'[w] # wreg[w] THEN Len(events_[id])
                        ELSE Ticket[w]
               IN /\ Ticket'[w] = t + 1
                  /\ t + 1 <= Len(events_'[id])
                  /\ out'[w] = events_'[id][t + 1]
       /\ (CallPollEvent(w) /\ ~lastOp'.ret /\ wreg'[w] = wreg[w])
            => Ticket'[w] = Ticket[w]]_vars

\* A PollEvent has returned true from a ticket that was not the first.
C2_Witness ==
  \E w \in Watches :
    /\ lastOp.op = "PollEvent" /\ lastOp.w = w /\ lastOp.ret
    /\ Ticket[w] >= 2

\* C3 as stated: every event a watch has returned since its last Create
\* stems from the registration that Create gave it.
C3_NoEventFromBeforeRegistration ==
  \A w \in Watches :
    \A i \in 1..Len(delivered[w]) : delivered[w][i].reg = wreg[w]

\* The directory a watch's path names exists, so that Create succeeds.
Registrable(w) == Resolve(Path[w]) # NoDir /\ exists[Resolve(Path[w])]

\* C4: a PollEvent that finds a destruction entry at its ticket returns true
\* with that entry and leaves the watch Dead.  A PollEvent of a Dead watch
\* first releases the registration its handle names and calls Create: when
\* Create fails it returns false, hands out no event and changes no queue;
\* when Create succeeds the watch holds a live registration on its path.
C4_DestroyedThenRecreate ==
  [][\A w \in Watches :
       CallPollEvent(w) =>
         /\ LET id == NativeHandle'[w]
                t == Ticket'[w] - (IF lastOp'.ret THEN 1 ELSE 0)
            IN (/\ ~Dead[w] \/ lastOp'.created
                /\ t < Len(events_'[id])
                /\ events_'[id][t + 1].Type = watch_directory_destroyed)
                 => /\ lastOp'.ret
                    /\ out'[w] = events_'[id][t + 1]
                    /\ Dead'[w]
         /\ (lastOp'.ret /\ out'[w].Type = watch_directory_destroyed)
              => Dead'[w]
         /\ Dead[w] =>
              /\ lastOp'.created = Registrable(w)
              /\ Live(Cur, NativeHandle[w])
                   => kwatch'[NativeHandle[w]].reg
                        # kwatch[NativeHandle[w]].reg
              /\ lastOp'.created
                   => /\ Live([kwatch |-> kwatch'], NativeHandle'[w])
                      /\ kwatch'[NativeHandle'[w]].dir = Resolve(Path[w])
              /\ ~lastOp'.created
                   => /\ ~lastOp'.ret /\ Dead'[w]
                      /\ out'[w] = out[w]
                      /\ events_' = events_
                      /\ Ticket'[w] = Ticket[w]
                      /\ NativeHandle'[w] = NativeHandle[w]]_vars

\* A watch that has returned a destruction event polled again while its
\* directory was gone, and got false.
C4_Witness ==
  \E w \in Watches :
    /\ lastOp.op = "PollEvent" /\ lastOp.w = w
    /\ ~lastOp.ret /\ ~lastOp.created /\ Dead[w]
    /\ out[w].Type = watch_directory_destroyed
    /\ Len(delivered[w]) >= 1
    /\ NativeHandle[w] # -1

C6_FileWatcherFilters ==
  \A w \in Watches :
    /\ freturned[w]
         = SelectSeq(fconsumed[w], LAMBDA e : e.Name = Filename[w])
    /\ (lastOp.op = "FilePollEvent" /\ lastOp.w = w /\ lastOp.ret)
         => /\ out[w].Name = Filename[w]
            /\ freturned[w] # <<>>
            /\ out[w] = freturned[w][Len(freturned[w])]

\* A file watcher dropped an event of another name and returned one of its
\* own in the same call.
C6_Witness ==
  \E w \in Watches :
    /\ lastOp.op = "FilePollEvent" /\ lastOp.w = w /\ lastOp.ret
    /\ Len(fconsumed[w]) = 2 /\ Len(freturned[w]) = 1
    /\ fconsumed[w][1].Name # Filename[w]

\* C7 as stated: a Destroy of a watch on which Destroy has run since its
\* last successful Create (a second Destroy, or the Destroy of a watch
\* whose Create failed) leaves the live registrations and the queues as
\* they were.
C7_SecondDestroyChangesNothing ==
  [][\A w \in Watches :
       ((CallDestroy(w) \/ Destruct(w)) /\ destroyed[w])
         => kwatch' = kwatch /\ events_' = events_]_vars

\* What does hold: a Destroy right after a Destroy of the same watch, and a
\* Destroy of a watch whose handle is -1, change neither the registrations
\* nor the queues nor the channel.
DestroyTwiceInARow ==
  [][\A w \in Watches :
       ((CallDestroy(w) \/ Destruct(w))
          /\ (lastOp'.again \/ NativeHandle[w] = -1))
         => /\ kwatch' = kwatch
            /\ events_' = events_
            /\ channel' = channel
            /\ Dead'[w]
            /\ NativeHandle'[w] = NativeHandle[w]]_vars

\* The event the stated precedence assigns to a mask and a name, if any.
Expected(mask, name) ==
  CASE mask \cap {"IN_IGNORED", "IN_Q_OVERFLOW", "IN_UNMOUNT"} # {}
         -> <<[Type |-> "watch_directory_destroyed", Name |-> ""]>>
    [] OTHER ->
  CASE mask \cap {"IN_CREATE", "IN_MOVED_TO"} # {}
         -> <<[Type |-> "file_created", Name |-> name]>>
    [] OTHER ->
  CASE mask \cap {"IN_DELETE", "IN_MOVED_FROM"} # {}
         -> <<[Type |-> "file_deleted", Name |-> name]>>
    [] OTHER ->
  CASE mask \cap {"IN_MODIFY", "IN_CLOSE_WRITE"} # {}
         -> <<[Type |-> "file_modified", Name |-> name]>>
    [] OTHER -> <<>>

\* C8: once Update has read the pending notification, the queue of its
\* handle holds what the precedence destruction > creation > deletion >
\* modification assigns to its mask: one event at most, a destruction event
\* with an empty name whenever a destruction bit is set, nothing when no
\* bit of the four classes is set.
C8_ClassificationPrecedence ==
  lastOp.op = "Update" =>
    /\ Len(reported["w1"]) = 1
    /\ events_[1] = Expected(reported["w1"][1].mask, reported["w1"][1].name)
    /\ Len(events_[1]) <= 1

\* A named notification with a bit of every class set became one
\* destruction event with an empty name.
C8_Witness ==
  /\ lastOp.op = "Update"
  /\ Len(reported["w1"]) = 1
  /\ {"IN_UNMOUNT", "IN_MOVED_TO", "IN_DELETE", "IN_MODIFY"}
       \subseteq reported["w1"][1].mask
  /\ reported["w1"][1].name = "a"
  /\ events_[1] = <<[Type |-> "watch_directory_destroyed", Name |-> ""]>>

\* The bytes the first k notifications of a channel take.
RECURSIVE Bytes(_, _)
Bytes(ch, k) == IF k = 0 THEN 0 ELSE EventSize(ch[k]) + Bytes(ch, k - 1)

\* C9 as stated: when Update returns, nothing is left unread in the channel.
C9_UpdateDrainsAll == [][CallUpdate => channel' = <<>>]_vars

\* C9, amended: one Update reads the longest run of pending notifications
\* that fits in MaxEventSize bytes, at least one; the rest stay in the
\* channel, in order; each queue gains, in order, the events the read
\* notifications of its handle classify to.
C9_UpdateReadsOneBuffer ==
  [][CallUpdate =>
       \E k \in 1..Len(channel) :
         /\ Bytes(channel, k) <= MaxEventSize
         /\ k < Len(channel) => Bytes(channel, k + 1) > MaxEventSize
         /\ channel' = SubSeq(channel, k + 1, Len(channel))
         /\ \A id \in Ids :
              events_'[id]
                = events_[id]
                    \o Classified(SelectSeq(SubSeq(channel, 1, k),
                                            LAMBDA n : n.wd = id))]_vars

\* An Update read a notification and left another in the channel.
C9_Witness ==
  /\ lastOp.op = "Update"
  /\ lastOp.read >= 1
  /\ lastOp.left >= 1

\* C10 as stated: a Dead watch's handle is -1 or names no live registration.
C10_DeadHoldsNoLiveHandle ==
  \A w \in Watches :
    (obj[w] \in {"directory", "file"} /\ Dead[w])
      => NativeHandle[w] = -1 \/ ~Live(Cur, NativeHandle[w])

\* C11: across every step each queue of the pool keeps what it held as a
\* prefix of what it holds afterwards; a Destroy leaves the queue of the
\* handle it releases as it was.
C11_QueuesAppendOnly ==
  [][/\ \A id \in Ids : IsPrefix(events_[id], events_'[id])
     /\ \A w \in Watches :
          (CallDestroy(w) \/ Destruct(w)) => events_' = events_]_vars

\* A watch was destroyed while the queue of its handle held an entry, and
\* the entry is still there.
C11_Witness ==
  \E w \in Watches :
    /\ lastOp.op \in {"Destroy", "Destruct"} /\ lastOp.w = w
    /\ ~lastOp.again
    /\ NativeHandle[w] # -1
    /\ events_[NativeHandle[w]] # <<>>

\* C12 as stated: no event a file watcher has returned is a destruction
\* event.
C12_FileWatcherNeverReturnsDestroyed ==
  \A w \in Watches :
    \A i \in 1..Len(freturned[w]) :
      freturned[w][i].Type # watch_directory_destroyed

\* A watch is alive and owes its caller an event: an entry of its queue
\* beyond its ticket, or a notification of its registration, still in the
\* channel, that classifies to an event.
Owes(w) ==
  /\ obj[w] = "directory" /\ ~Dead[w]
  /\ \/ Ticket[w] < Len(events_[NativeHandle[w]])
     \/ \E i \in 1..Len(channel) :
          /\ channel[i].wd = NativeHandle[w]
          /\ channel[i].reg = wreg[w]
          /\ Parsed(channel[i]) # <<>>

C14_AliveAfterSuccessfulCreate ==
  [][\A w \in Watches :
       (CallPollEvent(w) /\ Dead[w] /\ NativeHandle[w] # -1
          /\ lastOp'.created)
         => ~Dead'[w]]_vars

\* What does hold of the demultiplexing: a PollEvent, of whichever watch,
\* appends to each queue the events that the notifications its Update read
\* under that handle classify to, in order, and nothing else.
PollKeysByHandle ==
  [][\A w \in Watches :
       CallPollEvent(w) =>
         LET pre == IF Dead[w] THEN Recreate(Cur, w).channel ELSE channel
             k == Len(pre) - Len(channel')
         IN /\ channel' = SubSeq(pre, k + 1, Len(pre))
            /\ \A id \in Ids :
                 events_'[id]
                   = events_[id]
                       \o Classified(SelectSeq(SubSeq(pre, 1, k),
                                               LAMBDA n : n.wd = id))]_vars

\* C15 as stated, its second part: of two directory watches on different
\* paths, neither has returned an event that stems from the registration
\* the other's handle names.
C15_NoEventOfOtherWatch ==
  \A w, v \in Watches :
    (/\ w # v /\ obj[w] = "directory" /\ obj[v] = "directory"
     /\ Resolve(Path[w]) # Resolve(Path[v]))
      => \A i \in 1..Len(delivered[w]) : delivered[w][i].reg # wreg[v]

\* C16: an alive watch holds a handle of the pool, and its Ticket lies
\* between 0 and the length of the queue of that handle, so that the entry
\* PollEvent reads at Ticket, when Ticket is below the length, exists.
C16_TicketWithinQueue ==
  \A w \in Watches :
    (obj[w] \in {"directory", "file"} /\ ~Dead[w])
      => /\ NativeHandle[w] \in Handles
         /\ 0 <= Ticket[w]
         /\ Ticket[w] <= Len(events_[NativeHandle[w]])

\* An alive watch has just returned an entry from inside its queue, with
\* entries before and after it.
C16_Witness ==
  \E w \in Watches :
    /\ lastOp.op = "PollEvent" /\ lastOp.w = w /\ lastOp.ret
    /\ ~Dead[w]
    /\ 1 < Ticket[w]
    /\ Ticket[w] < Len(events_[NativeHandle[w]])

\* C17 as stated: a call on one watch that runs Destroy or Recreate (Destroy,
\* the destructor, a PollEvent) leaves in place the registration that
\* another, alive watch of the pool holds.
C17_DestroyLeavesOthersRegistered ==
  [][\A w, v \in Watches :
       (/\ w # v
        /\ obj[v] \in {"directory", "file"} /\ ~Dead[v]
        /\ Live(Cur, NativeHandle[v])
        /\ kwatch[NativeHandle[v]].reg = wreg[v]
        /\ \/ CallDestroy(w) \/ Destruct(w)
           \/ CallPollEvent(w) \/ CallFilePollEvent(w))
         => kwatch'[NativeHandle[v]] = kwatch[NativeHandle[v]]]_vars

\* C18 as stated: a PollEvent that returns false, of a directory watch or
\* of a file watcher, leaves the caller's event as it was.
C18_FalseLeavesEventUnchanged ==
  [][\A w \in Watches :
       ((CallPollEvent(w) \/ CallFilePollEvent(w)) /\ ~lastOp'.ret)
         => out'[w] = out[w]]_vars

\* What does hold: a PollEvent of a directory watch that returns false
\* leaves the caller's event as it was.
DirectoryFalseLeavesEventUnchanged ==
  [][\A w \in Watches :
       (CallPollEvent(w) /\ ~lastOp'.ret) => out'[w] = out[w]]_vars

\* The part of a path behind its last separator; the whole path when it
\* holds none.
AfterLastSeparator(p) ==
  LET at == {i \in 1..Len(p) : p[i] \in Separators}
  IN IF at = {} THEN p
     ELSE SubSeq(p, (CHOOSE i \in at : \A j \in at : j <= i) + 1, Len(p))

\* C19 as stated: for every path p, GetDirectory(p) followed by
\* GetFilename(p) is p, GetFilename(p) holds no separator, and GetFilename(p)
\* is the part of p behind its last separator, all of p when it has none.
C19_SplitIsLossless ==
  split.done =>
    /\ split.Directory \o split.Filename = split.p
    /\ \A i \in 1..Len(split.Filename) : split.Filename[i] \notin Separators
    /\ split.Filename = AfterLastSeparator(split.p)

\* What does hold: the three for every path that holds a separator; for a
\* path that holds none both parts are empty.
SplitWithSeparator ==
  split.done =>
    IF \E i \in 1..Len(split.p) : split.p[i] \in Separators
    THEN /\ split.Directory \o split.Filename = split.p
         /\ \A i \in 1..Len(split.Filename) :
              split.Filename[i] \notin Separators
         /\ split.Filename = AfterLastSeparator(split.p)
         /\ split.Directory[Len(split.Directory)] \in Separators
    ELSE split.Directory = <<>> /\ split.Filename = <<>>

====
